---- MODULE Spec2Model ----
(***************************************************************************)
(* Model of src/http/handlers/response.js: the axios response and error    *)
(* interceptors responseHandler, needReturnResponseHandler,                *)
(* responseErrorHandler and needReturnResponseErrorHandler.                *)
(*                                                                         *)
(* A state is one interceptor call: the object handed in (arg), the        *)
(* allResponse parameter, and, once the handler has run, what it returned  *)
(* or threw (result), what it wrote to the console (logged), which display *)
(* handlers it invoked (shown) and the argument object as the call left it *)
(* (heap).  Init draws the argument from bounded sets; each action is one  *)
(* whole handler applied to it.                                            *)
(***************************************************************************)
EXTENDS Integers, Sequences, TLC

VARIABLES call, arg, allResponse, result, logged, shown, heap

vars == <<call, arg, allResponse, result, logged, shown, heap>>

(***************************************************************************)
(* Bounds of the input space.                                              *)
(***************************************************************************)
\* payload objects (ResponseData.data) are numbered 1..MaxPayloadId
MaxPayloadId == 2

(***************************************************************************)
(* JavaScript values.                                                      *)
(***************************************************************************)
Undefined == [t |-> "undefined"]
Null == [t |-> "null"]
Num(n) == [t |-> "number", n |-> n]
Str(s) == [t |-> "string", s |-> s]

\* ToBoolean, as used by &&, ||, ! and if
Truthy(v) ==
    CASE v.t = "undefined" -> FALSE
      [] v.t = "null" -> FALSE
      [] v.t = "number" -> v.n # 0
      [] v.t = "string" -> v.s # ""
      [] OTHER -> TRUE

\* property read obj.code on a value that may be any body
CodeOf(data) == IF "code" \in DOMAIN data THEN data.code ELSE Undefined

\* property read obj.message on a value that may be any body
MessageOf(data) == IF "message" \in DOMAIN data THEN data.message ELSE ""

(***************************************************************************)
(* Collaborators imported by response.js (lines 1-7).                      *)
(***************************************************************************)
\* HTTP_STATUS_CODE.OK
OK == 200

\* errorMessage, the default display handler
errorMessage == [t |-> "function", fn |-> "errorMessage"]

\* codes that have an entry in the codeHandlers table
RegisteredCodes == {403}

\* codeHandlers[code]: the registered handler, or undefined
codeHandlers(code) ==
    IF code.t = "number" /\ code.n \in RegisteredCodes
    THEN [t |-> "function", fn |-> "codeHandlers", code |-> code.n]
    ELSE Undefined

\* isStandardResponseBody(data): the body has the envelope shape
isStandardResponseBody(data) ==
    /\ data.t = "object"
    /\ {"code", "data", "message", "success"} \subseteq DOMAIN data

\* isRightResponse(data): the envelope signals logical success
isRightResponse(data) == data.success

\* getMessage(data, status, statusText): envelope message, else statusText
getMessage(data, status, statusText) ==
    IF data.t = "object" /\ MessageOf(data) # ""
    THEN MessageOf(data)
    ELSE statusText

\* createError(message, config, code, request, response): a new error object
createError(message, config, code, request, response) ==
    [ref |-> "createError", message |-> message, config |-> config,
     code |-> code, request |-> request, response |-> response]

(***************************************************************************)
(* Outcomes of a call.                                                     *)
(***************************************************************************)
Pending == [kind |-> "pending"]
Return(v) == [kind |-> "return", value |-> v]
Rejected(e) == [kind |-> "rejected", reason |-> e]
TypeError == [kind |-> "throw", error |-> "TypeError"]

\* one invocation of a display handler
Invocation(handler, msg) == [handler |-> handler, msg |-> msg]

(***************************************************************************)
(* responseHandler (lines 55-123).  Each operator yields the record        *)
(* [result, logged, shown] of the code it models.                          *)
(***************************************************************************)
Outcome(r, l, s) == [result |-> r, logged |-> l, shown |-> s]

\* (data && data.code) || status  (lines 89, 103, 117, 183)
CodeOrStatus(data, status) ==
    LET code == IF Truthy(data) THEN CodeOf(data) ELSE data
    IN  IF Truthy(code) THEN code ELSE Num(status)

\* faulty variant: the response is logged in debug mode only
LogsResponse_DebugOnly(response) == response.config.debug

\* debug || status !== HTTP_STATUS_CODE.OK: console.log(response)
LogsResponse(response) ==
    response.config.debug \/ response.status # OK

\* faulty variant: under handleError the failure is rejected even when the
\* whole response was asked for
FailedEnvelope_HandleErrorRejects(response, allResp) ==
    LET data == response.data
        config == response.config
        found == codeHandlers(CodeOf(data))
        handler == IF Truthy(found) THEN found ELSE errorMessage
        errorMsg == getMessage(data, response.status, response.statusText)
        rejection == Rejected(createError(errorMsg, config,
                                 CodeOrStatus(data, response.status),
                                 response.request, response))
    IN  IF ~config.handleError
        THEN [result |-> IF allResp THEN Return(response) ELSE rejection,
              shown |-> IF ~config.ignoreMsg /\ Truthy(handler)
                        THEN <<Invocation(handler, errorMsg)>>
                        ELSE <<>>]
        ELSE [result |-> rejection, shown |-> <<>>]

\* the else branch of isRightResponse(data)
FailedEnvelope(response, allResp) ==
    LET data == response.data
        config == response.config
        found == codeHandlers(CodeOf(data))
        handler == IF Truthy(found) THEN found ELSE errorMessage
        errorMsg == getMessage(data, response.status, response.statusText)
        rejection == Rejected(createError(errorMsg, config,
                                 CodeOrStatus(data, response.status),
                                 response.request, response))
    IN  IF ~config.handleError
        THEN [result |-> IF allResp THEN Return(response) ELSE rejection,
              shown |-> IF ~config.ignoreMsg /\ Truthy(handler)
                        THEN <<Invocation(handler, errorMsg)>>
                        ELSE <<>>]
        ELSE [result |-> IF allResp THEN Return(response) ELSE rejection,
              shown |-> <<>>]

\* faulty variant: the early return on config.all is missing
OkStatus_WithoutAll(response, allResp) ==
    LET data == response.data
        config == response.config
    IN  IF config.external \/ ~isStandardResponseBody(data)
        THEN [result |-> IF allResp THEN Return(response) ELSE Return(data),
              shown |-> <<>>]
        ELSE IF isRightResponse(data)
        THEN [result |-> IF allResp THEN Return(response)
                         ELSE Return(data.data),
              shown |-> <<>>]
        ELSE FailedEnvelope(response, allResp)

\* faulty variant: a successful envelope yields the envelope, not its data
OkStatus_ReturnsEnvelope(response, allResp) ==
    LET data == response.data
        config == response.config
    IN  IF config.all
        THEN [result |-> Return(response), shown |-> <<>>]
        ELSE IF config.external \/ ~isStandardResponseBody(data)
        THEN [result |-> IF allResp THEN Return(response) ELSE Return(data),
              shown |-> <<>>]
        ELSE IF isRightResponse(data)
        THEN [result |-> IF allResp THEN Return(response) ELSE Return(data),
              shown |-> <<>>]
        ELSE FailedEnvelope(response, allResp)

\* the branch status === HTTP_STATUS_CODE.OK
OkStatus(response, allResp) ==
    LET data == response.data
        config == response.config
    IN  IF config.all
        THEN [result |-> Return(response), shown |-> <<>>]
        ELSE IF config.external \/ ~isStandardResponseBody(data)
        THEN [result |-> IF allResp THEN Return(response) ELSE Return(data),
              shown |-> <<>>]
        ELSE IF isRightResponse(data)
        THEN [result |-> IF allResp THEN Return(response)
                         ELSE Return(data.data),
              shown |-> <<>>]
        ELSE FailedEnvelope(response, allResp)

\* the branch status !== HTTP_STATUS_CODE.OK
UnexpectedStatus(response) ==
    Rejected(createError(
        "Unexpected http status code: " \o ToString(response.status),
        response.config,
        CodeOrStatus(response.data, response.status),
        response.request, response))

\* faulty variant: config.all is honoured before the status is looked at
responseHandler_AllBeforeStatus(response, allResp) ==
    LET l == IF LogsResponse(response) THEN <<response>> ELSE <<>>
    IN  IF response.config.all
        THEN Outcome(Return(response), l, <<>>)
        ELSE IF response.status = OK
        THEN LET r == OkStatus(response, allResp)
             IN  Outcome(r.result, l, r.shown)
        ELSE Outcome(UnexpectedStatus(response), l, <<>>)

responseHandler(response, allResp) ==
    LET l == IF LogsResponse(response) THEN <<response>> ELSE <<>>
    IN  IF response.status = OK
        THEN LET r == OkStatus(response, allResp)
             IN  Outcome(r.result, l, r.shown)
        ELSE Outcome(UnexpectedStatus(response), l, <<>>)

\* needReturnResponseHandler (lines 129-137)
needReturnResponseHandler(response) ==
    LET res == responseHandler(response, TRUE)
    IN  IF res.result # Return(Undefined)
        THEN res
        ELSE [res EXCEPT !.result = Return(response)]

(***************************************************************************)
(* responseErrorHandler (lines 151-190).  The outcome also carries the     *)
(* error object as the call leaves it (heap): message and code are         *)
(* assigned in place.                                                      *)
(***************************************************************************)
ErrorOutcome(r, l, s, h) ==
    [result |-> r, logged |-> l, shown |-> s, heap |-> h]

\* getMessage(...) || error.message || 'Uncaught Error (in ibuild/http)'
ErrorMsg(error) ==
    LET response == error.response
        derived == getMessage(response.data, response.status,
                              response.statusText)
    IN  IF derived # "" THEN derived
        ELSE IF error.message # "" THEN error.message
        ELSE "Uncaught Error (in ibuild/http)"

\* if (!error.message) error.message = errorMsg
\* if (!error.code && status) error.code = status
Normalise(error) ==
    LET status == error.response.status
        e1 == IF error.message = ""
              THEN [error EXCEPT !.message = ErrorMsg(error)]
              ELSE error
    IN  IF ~Truthy(e1.code) /\ status # 0
        THEN [e1 EXCEPT !.code = Num(status)]
        ELSE e1

\* the body of if (config)
WithConfig(error) ==
    LET response == error.response
        errorMsg == ErrorMsg(error)
        mutated == Normalise(error)
    IN  IF error.config.handleError
        THEN [result |-> Rejected(mutated), shown |-> <<>>,
              heap |-> mutated]
        ELSE [result |-> Rejected(createError(errorMsg, error.config,
                             CodeOrStatus(response.data, response.status),
                             error.request, response)),
              shown |-> <<Invocation(errorMessage, errorMsg)>>,
              heap |-> mutated]

responseErrorHandler(error) ==
    IF ~(error.config.t = "object")
    THEN \* const { debug, handleError } = config
         ErrorOutcome(TypeError, <<>>, <<>>, error)
    ELSE IF ~(error.response.t = "object")
    THEN \* const { data, status, statusText } = response
         ErrorOutcome(TypeError, <<>>, <<>>, error)
    ELSE LET l == IF error.config.debug THEN <<error>> ELSE <<>>
         IN  IF Truthy(error.config)
             THEN LET r == WithConfig(error)
                  IN  ErrorOutcome(r.result, l, r.shown, r.heap)
             ELSE ErrorOutcome(Return(Undefined), l, <<>>, error)

\* needReturnResponseErrorHandler (lines 196-205)
needReturnResponseErrorHandler(error) ==
    LET res == responseErrorHandler(error)
    IN  IF res.result.kind = "throw" THEN res
        ELSE IF res.result # Return(Undefined) THEN res
        ELSE [res EXCEPT !.result = Rejected(res.heap)]

(***************************************************************************)
(* Inputs.                                                                 *)
(***************************************************************************)
Payloads == {Null} \cup {[t |-> "object", id |-> i] : i \in 1..MaxPayloadId}

\* ResponseData.code: absent, the success class 0, a registered and an
\* unregistered application code
Codes == {Undefined, Num(0), Num(1), Num(403)}

Messages == {"", "Forbidden"}

\* the standard body { code, data, message, success }
Envelopes ==
    [t : {"object"}, code : Codes, data : Payloads, message : Messages,
     success : BOOLEAN]

\* bodies that are not the standard envelope (/enum, /mfe, /config, ...)
OpaqueBodies ==
    {Null} \cup {[t |-> "object", entries |-> i] : i \in 1..MaxPayloadId}

Bodies == Envelopes \cup OpaqueBodies

Statuses == {0, OK, 500}

StatusTexts == {"", "Internal Server Error"}

\* RequestConfig; a flag left out of the config reads as false
Configs ==
    [t : {"object"}, all : BOOLEAN, external : BOOLEAN, debug : BOOLEAN,
     handleError : BOOLEAN, ignoreMsg : BOOLEAN]

\* AxiosResponse
ResponsesOf(config) ==
    [data : Bodies, status : Statuses, statusText : StatusTexts,
     request : {"XMLHttpRequest"}, config : {config}, t : {"object"}]

Responses == UNION {ResponsesOf(c) : c \in Configs}

ErrorCodes == {Undefined, Str("ECONNABORTED")}

ErrorMessages == {"", "Network Error"}

\* AxiosError: config and response may each be missing
Errors ==
    UNION {[ref : {"error"}, config : {c}, request : {"XMLHttpRequest"},
            response : ResponsesOf(c) \cup {Undefined},
            message : ErrorMessages, code : ErrorCodes]
           : c \in Configs \cup {Undefined}}

IsError(x) == "response" \in DOMAIN x

(***************************************************************************)
(* Specification.                                                          *)
(***************************************************************************)
Init ==
    /\ call = "none"
    /\ \/ arg \in Responses /\ allResponse \in BOOLEAN
       \/ arg \in Errors /\ allResponse = FALSE
    /\ result = Pending
    /\ logged = <<>>
    /\ shown = <<>>
    /\ heap = arg

ResponseHandler ==
    /\ call = "none"
    /\ ~IsError(arg)
    /\ LET r == responseHandler(arg, allResponse)
       IN  /\ result' = r.result
           /\ logged' = r.logged
           /\ shown' = r.shown
    /\ call' = "responseHandler"
    /\ UNCHANGED <<arg, allResponse, heap>>

\* the wrapper takes the response alone: allResponse is not an input of it
NeedReturnResponseHandler ==
    /\ call = "none"
    /\ ~IsError(arg)
    /\ allResponse = FALSE
    /\ LET r == needReturnResponseHandler(arg)
       IN  /\ result' = r.result
           /\ logged' = r.logged
           /\ shown' = r.shown
    /\ call' = "needReturnResponseHandler"
    /\ UNCHANGED <<arg, allResponse, heap>>

ResponseErrorHandler ==
    /\ call = "none"
    /\ IsError(arg)
    /\ LET r == responseErrorHandler(arg)
       IN  /\ result' = r.result
           /\ logged' = r.logged
           /\ shown' = r.shown
           /\ heap' = r.heap
    /\ call' = "responseErrorHandler"
    /\ UNCHANGED <<arg, allResponse>>

NeedReturnResponseErrorHandler ==
    /\ call = "none"
    /\ IsError(arg)
    /\ LET r == needReturnResponseErrorHandler(arg)
       IN  /\ result' = r.result
           /\ logged' = r.logged
           /\ shown' = r.shown
           /\ heap' = r.heap
    /\ call' = "needReturnResponseErrorHandler"
    /\ UNCHANGED <<arg, allResponse>>

Next ==
    \/ ResponseHandler
    \/ NeedReturnResponseHandler
    \/ ResponseErrorHandler
    \/ NeedReturnResponseErrorHandler

Spec == Init /\ [][Next]_vars

(***************************************************************************)
(* Vocabulary of the properties.                                           *)
(***************************************************************************)
Called(name) == call = name

OnResponse == call \in {"responseHandler", "needReturnResponseHandler"}

OnError == call \in {"responseErrorHandler", "needReturnResponseErrorHandler"}

\* the allResponse value responseHandler ran with
EffectiveAllResponse == allResponse \/ Called("needReturnResponseHandler")

HasConfig == arg.config # Undefined

HasResponse == arg.response # Undefined

OkResponse == OnResponse /\ arg.status = OK

StandardOk == OkResponse /\ isStandardResponseBody(arg.data)

RightEnvelope == StandardOk /\ isRightResponse(arg.data)

\* OK status, standard envelope, logical failure
LogicalFailure == StandardOk /\ ~isRightResponse(arg.data)

\* a call whose input is a failure
Failure == (OnResponse /\ arg.status # OK) \/ LogicalFailure \/ OnError

Announced == Len(logged) > 0 \/ Len(shown) > 0

(***************************************************************************)
(* C1.  needReturnResponseErrorHandler called with an error whose config   *)
(* is undefined rejects with the very same error object, its message and   *)
(* code untouched.                                                         *)
(***************************************************************************)
C1_RejectsOriginalWithoutConfig ==
    (Called("needReturnResponseErrorHandler") /\ ~HasConfig) =>
        /\ result = Rejected(arg)
        /\ heap = arg

(***************************************************************************)
(* C2.  OK status, failed standard envelope, neither all nor external,     *)
(* allResponse false: responseHandler rejects with an error whose code is  *)
(* data.code whenever data.code is present (0 included) and status only    *)
(* when data.code is absent.                                               *)
(***************************************************************************)
C2_RejectionCodeIsDataCode ==
    (/\ Called("responseHandler")
     /\ LogicalFailure
     /\ ~arg.config.all
     /\ ~arg.config.external
     /\ ~allResponse) =>
        /\ result.kind = "rejected"
        /\ result.reason.code = IF arg.data.code # Undefined
                                THEN arg.data.code
                                ELSE Num(arg.status)

(***************************************************************************)
(* C3.  In every failing call (responseHandler with a non-OK status or     *)
(* with a failed envelope, responseErrorHandler with a config) the display *)
(* handler runs exactly once when neither ignoreMsg nor handleError is     *)
(* set, and not at all when either is set.                                 *)
(***************************************************************************)
C3_DisplayedOnceUnlessSuppressed ==
    (\/ Called("responseHandler") /\ (arg.status # OK \/ LogicalFailure)
     \/ Called("responseErrorHandler") /\ HasConfig) =>
        Len(shown) = IF ~arg.config.ignoreMsg /\ ~arg.config.handleError
                     THEN 1 ELSE 0

C4_AnnounceCondition ==
    IF OnResponse
    THEN \/ arg.config.debug
         \/ arg.status # OK
         \/ /\ ~arg.config.all
            /\ ~arg.config.external
            /\ ~arg.config.handleError
            /\ ~arg.config.ignoreMsg
    ELSE /\ HasConfig
         /\ HasResponse
         /\ arg.config.debug \/ ~arg.config.handleError

C5_UnexpectedStatusRejects ==
    (OnResponse /\ arg.status # OK) =>
        /\ result.kind = "rejected"
        /\ result.reason.message =
               "Unexpected http status code: " \o ToString(arg.status)

C5_Witness ==
    /\ Called("needReturnResponseHandler")
    /\ arg.status = 500
    /\ arg.config.all
    /\ result.kind = "rejected"
    /\ result.reason.message = "Unexpected http status code: 500"

(***************************************************************************)
(* C6.  OK status, failed standard envelope, allResponse true (so also     *)
(* needReturnResponseHandler): the full response is returned, never a      *)
(* rejection, whatever handleError and ignoreMsg.                          *)
(***************************************************************************)
C6_FailureResolvesWithResponse ==
    (LogicalFailure /\ EffectiveAllResponse) => result = Return(arg)

C6_Witness ==
    /\ Called("needReturnResponseHandler")
    /\ LogicalFailure
    /\ ~arg.config.all
    /\ ~arg.config.external
    /\ arg.config.handleError
    /\ result = Return(arg)

(***************************************************************************)
(* C7.  OK status and config.all: responseHandler returns the response     *)
(* itself, whatever the body, the other flags and allResponse.             *)
(***************************************************************************)
C7_AllReturnsResponse ==
    (Called("responseHandler") /\ arg.status = OK /\ arg.config.all) =>
        result = Return(arg)

C7_Witness ==
    /\ Called("responseHandler")
    /\ LogicalFailure
    /\ arg.config.all
    /\ ~allResponse
    /\ result = Return(arg)

(***************************************************************************)
(* C8 as stated.  OK status, standard envelope, isRightResponse true:      *)
(* responseHandler returns data.data.                                      *)
(***************************************************************************)
C8_ReturnsPayload ==
    (Called("responseHandler") /\ RightEnvelope) =>
        result = Return(arg.data.data)

(***************************************************************************)
(* C8 as amended.  OK status, standard envelope, isRightResponse true:     *)
(* responseHandler returns data.data when all, external and allResponse    *)
(* are all unset; the whole response when all or allResponse is set; and   *)
(* the body when only external is set.                                     *)
(***************************************************************************)
C8_ReturnsPayloadUnlessFlagged ==
    (Called("responseHandler") /\ RightEnvelope) =>
        result = IF arg.config.all \/ allResponse THEN Return(arg)
                 ELSE IF arg.config.external THEN Return(arg.data)
                 ELSE Return(arg.data.data)

C8_Witness ==
    /\ Called("responseHandler")
    /\ RightEnvelope
    /\ ~arg.config.all
    /\ ~arg.config.external
    /\ ~allResponse
    /\ arg.data.data = [t |-> "object", id |-> 1]
    /\ result = Return([t |-> "object", id |-> 1])

(***************************************************************************)
(* C9.  Every error handed to responseErrorHandler that carries a config,  *)
(* a network error without response included, comes back as a rejected     *)
(* promise: no exception, no undefined result.                             *)
(***************************************************************************)
C9_AlwaysRejects ==
    (Called("responseErrorHandler") /\ HasConfig) =>
        result.kind = "rejected"

(***************************************************************************)
(* C10.  responseErrorHandler with a config: under handleError it rejects  *)
(* with the very error object passed in, whose message and code were       *)
(* written only where empty/absent; otherwise it rejects with a new error  *)
(* (message errorMsg, code data.code-or-status), not the original object.  *)
(***************************************************************************)
C10_RejectionValue ==
    (Called("responseErrorHandler") /\ HasConfig) =>
        /\ result.kind = "rejected"
        /\ arg.config.handleError =>
               /\ result.reason = heap
               /\ result.reason.ref = arg.ref
               /\ arg.message # "" => result.reason.message = arg.message
               /\ Truthy(arg.code) => result.reason.code = arg.code
        /\ ~arg.config.handleError =>
               /\ result.reason.ref # arg.ref
               /\ result.reason.message = ErrorMsg(arg)
               /\ result.reason.code =
                      CodeOrStatus(arg.response.data, arg.response.status)

====
